---- MODULE Spec2Model ----
(***************************************************************************)
(* Electricity cost calculator (src/app.py).                               *)
(*                                                                         *)
(* Text is modelled at character level: a line of the upload, a column     *)
(* name and a cell are sequences of one-character strings.  The only       *)
(* multi-character lexemes are the date-time literals of DateTable, which  *)
(* stand for a whole "YYYY-MM-DD HH:00" text.  Floats are fixed point:     *)
(* usage values are integers counting tenths.                              *)
(***************************************************************************)
EXTENDS Integers, Sequences, FiniteSets, TLC

VARIABLES
    pc,                 \* position in main() / calculate_power_tariffs()
    upload,             \* uploaded_file.getvalue(): sequence of lines
    stringio_pos,       \* read position of stringio, in lines
    df,                 \* the DataFrame main() works on
    errors,             \* error list of validate_csv_data
    datetime_col,       \* column name returned by the validator (None: <<>>)
    usage_col,
    tariffs,            \* tariff list handed to calculate_power_tariffs
    idx,                \* loop index of "for tariff in tariffs"
    filtered_df,        \* filtered_df of the last evaluated tariff
    top_peaks,          \* top_peaks of the last evaluated tariff
    total_tariff_cost,
    peak_hours_info,
    tariff_costs,
    session,            \* st.session_state
    last_model,         \* outcome of the last convert_price_model_to_config
    model_doc,         \* the document handed to convert_price_model_to_config
    bill                \* the cost breakdown shown by the last script run (None: <<>>)

vars == <<pc, upload, stringio_pos, df, errors, datetime_col, usage_col,
          tariffs, idx, filtered_df, top_peaks, total_tariff_cost,
          peak_hours_info, tariff_costs, session, last_model, model_doc,
          bill>>

mainVars == <<upload, stringio_pos, df, errors, datetime_col, usage_col>>
tariffVars == <<tariffs, idx, filtered_df, top_peaks, total_tariff_cost,
                peak_hours_info, tariff_costs>>
sessionVars == <<session, last_model, model_doc>>
billVars == <<bill>>

----------------------------------------------------------------------------
(* Bounds *)

\* data rows of an uploaded file
MaxRows == 2

----------------------------------------------------------------------------
(* Generic helpers *)

None == <<>>

Range(s) == {s[i] : i \in 1..Len(s)}

Max(a, b) == IF a >= b THEN a ELSE b

Min(a, b) == IF a <= b THEN a ELSE b

\* int(x) / numpy float -> int64 cast: truncation toward zero
TruncDiv(a, b) == IF a >= 0 THEN a \div b ELSE -((-a) \div b)

----------------------------------------------------------------------------
(* Text: str.lower, substring test, split, join *)

LowerTable ==
    [c \in {"A","B","C","D","E","F","G","H","I","J","K","L","M","N","O","P",
            "Q","R","S","T","U","V","W","X","Y","Z"} |->
       CASE c = "A" -> "a" [] c = "B" -> "b" [] c = "C" -> "c" [] c = "D" -> "d"
         [] c = "E" -> "e" [] c = "F" -> "f" [] c = "G" -> "g" [] c = "H" -> "h"
         [] c = "I" -> "i" [] c = "J" -> "j" [] c = "K" -> "k" [] c = "L" -> "l"
         [] c = "M" -> "m" [] c = "N" -> "n" [] c = "O" -> "o" [] c = "P" -> "p"
         [] c = "Q" -> "q" [] c = "R" -> "r" [] c = "S" -> "s" [] c = "T" -> "t"
         [] c = "U" -> "u" [] c = "V" -> "v" [] c = "W" -> "w" [] c = "X" -> "x"
         [] c = "Y" -> "y" [] c = "Z" -> "z"]

\* col.lower()
Lower(s) == [i \in 1..Len(s) |->
               IF s[i] \in DOMAIN LowerTable THEN LowerTable[s[i]] ELSE s[i]]

\* term in s
Contains(s, term) ==
    \E k \in 0..(Len(s) - Len(term)) :
        \A j \in 1..Len(term) : s[k + j] = term[j]

DatetimeTerms ==
    { <<"d","a","t","e","t","i","m","e">>, <<"d","a","t","e">>,
      <<"t","i","m","e">>, <<"t","i","m","e","s","t","a","m","p">> }

UsageTerms ==
    { <<"k","w","h">>, <<"u","s","a","g","e">>,
      <<"c","o","n","s","u","m","p","t","i","o","n">>, <<"p","o","w","e","r">> }

RECURSIVE SplitFrom(_, _, _, _)
SplitFrom(line, sep, i, cur) ==
    IF i > Len(line) THEN <<cur>>
    ELSE IF line[i] = sep
         THEN <<cur>> \o SplitFrom(line, sep, i + 1, <<>>)
         ELSE SplitFrom(line, sep, i + 1, Append(cur, line[i]))

\* the fields of one line under separator sep
Split(line, sep) == SplitFrom(line, sep, 1, <<>>)

RECURSIVE JoinFields(_, _)
JoinFields(fields, sep) ==
    IF Len(fields) = 0 THEN <<>>
    ELSE IF Len(fields) = 1 THEN fields[1]
    ELSE fields[1] \o <<sep>> \o JoinFields(Tail(fields), sep)

----------------------------------------------------------------------------
(* Cell values of a DataFrame                                              *)
(*   k = "str": text t            k = "num": float n (tenths)              *)
(*   k = "nan": NaN               k = "ts" : datetime64, n = epoch ns,     *)
(*   k = "nat": NaT                          t = the date literal if any   *)

StrCell(t) == [k |-> "str", n |-> 0, t |-> t]
NumCell(n) == [k |-> "num", n |-> n, t |-> <<>>]
NaNCell == [k |-> "nan", n |-> 0, t |-> <<>>]
TsCell(n, t) == [k |-> "ts", n |-> n, t |-> t]
NaTCell == [k |-> "nat", n |-> 0, t |-> <<>>]
IsNaT(c) == c.k = "nat"

DigitVal ==
    [c \in {"0","1","2","3","4","5","6","7","8","9"} |->
       CASE c = "0" -> 0 [] c = "1" -> 1 [] c = "2" -> 2 [] c = "3" -> 3
         [] c = "4" -> 4 [] c = "5" -> 5 [] c = "6" -> 6 [] c = "7" -> 7
         [] c = "8" -> 8 [] c = "9" -> 9]

IsDigit(c) == c \in DOMAIN DigitVal

\* text without its leading minus sign
Unsigned(t) == IF Len(t) > 0 /\ t[1] = "-" THEN Tail(t) ELSE t

\* float(text) succeeds: [-]d or [-]d.d  (one integer digit, at most one decimal)
IsFloatText(t) ==
    LET b == Unsigned(t)
    IN  \/ Len(b) = 1 /\ IsDigit(b[1])
        \/ Len(b) = 3 /\ IsDigit(b[1]) /\ b[2] = "." /\ IsDigit(b[3])

\* float(text), in tenths
FloatValue(t) ==
    LET b == Unsigned(t)
        m == 10 * DigitVal[b[1]] + (IF Len(b) = 3 THEN DigitVal[b[3]] ELSE 0)
    IN  IF Len(t) > 0 /\ t[1] = "-" THEN -m ELSE m

\* the date-time literals the uploads use: date (yyyymmdd), month, hour and
\* an order-preserving stand-in for the epoch nanoseconds
DateTable ==
    [d \in {"2024-01-01 00:00", "2024-01-01 18:00", "2024-02-01 18:00",
            "2024-02-02 00:00"} |->
       CASE d = "2024-01-01 00:00" -> [date |-> 20240101, month |-> 1, hour |-> 0, ns |-> 1000]
         [] d = "2024-01-01 18:00" -> [date |-> 20240101, month |-> 1, hour |-> 18, ns |-> 1018]
         [] d = "2024-02-01 18:00" -> [date |-> 20240201, month |-> 2, hour |-> 18, ns |-> 1762]
         [] d = "2024-02-02 00:00" -> [date |-> 20240202, month |-> 2, hour |-> 0, ns |-> 1768]]

IsDateText(t) == Len(t) = 1 /\ t[1] \in DOMAIN DateTable

\* text the date parser may or may not accept, depending on the parser:
\* digits with a decimal comma ("1,5")
IsAmbiguousDateText(t) ==
    LET b == Unsigned(t)
    IN  Len(b) = 3 /\ IsDigit(b[1]) /\ b[2] = "," /\ IsDigit(b[3])

\* .dt.month / .dt.date / .dt.hour of a datetime cell; a cell made from a
\* number is that many nanoseconds from 1970-01-01 00:00
TsMonth(c) == IF c.t # <<>> /\ IsDateText(c.t) THEN DateTable[c.t[1]].month
              ELSE IF c.n < 0 THEN 12 ELSE 1
TsDate(c) == IF c.t # <<>> /\ IsDateText(c.t) THEN DateTable[c.t[1]].date
             ELSE IF c.n < 0 THEN 19691231 ELSE 19700101
TsHour(c) == IF c.t # <<>> /\ IsDateText(c.t) THEN DateTable[c.t[1]].hour
             ELSE IF c.n < 0 THEN 23 ELSE 0

----------------------------------------------------------------------------
(* DataFrame: [columns: sequence of names, rows: sequence of rows of cells] *)

EmptyFrame == [columns |-> <<>>, rows |-> <<>>]

ColIndex(frame, name) ==
    CHOOSE i \in 1..Len(frame.columns) : frame.columns[i] = name

\* df[name]
Column(frame, name) ==
    [r \in 1..Len(frame.rows) |-> frame.rows[r][ColIndex(frame, name)]]

\* df[name] = cells, written to the last column instead
SetColumn_LastColumn(frame, name, cells) ==
    [frame EXCEPT !.rows =
        [r \in 1..Len(frame.rows) |->
            [frame.rows[r] EXCEPT ![Len(frame.columns)] = cells[r]]]]

\* df[name] = cells
SetColumn(frame, name, cells) ==
    [frame EXCEPT !.rows =
        [r \in 1..Len(frame.rows) |->
            [frame.rows[r] EXCEPT ![ColIndex(frame, name)] = cells[r]]]]

\* df.empty
IsEmptyFrame(frame) == Len(frame.columns) = 0 \/ Len(frame.rows) = 0

----------------------------------------------------------------------------
(* pd.read_csv *)

ReadError == [ok |-> FALSE, frame |-> EmptyFrame]

\* pd.read_csv(stream, sep=sep) on the lines still unread in the stream.
\* Blank lines are skipped.  No line left: EmptyDataError.  The expected field count is the larger of
\* the header's and the first data row's; a later row with more fields is a
\* ParserError, a shorter one is padded with NaN.  Fields the first data row
\* has beyond the header are the index, not columns.  A column all of whose
\* non-empty cells are float text is numeric, otherwise it holds text.
read_csv(all_lines, sep) ==
    LET lines == SelectSeq(all_lines, LAMBDA l : l # <<>>)
    IN
    IF Len(lines) = 0 THEN ReadError
    ELSE
      LET header == Split(lines[1], sep)
          nrows == Len(lines) - 1
          fields == [r \in 1..nrows |-> Split(lines[r + 1], sep)]
          ex == IF nrows = 0 THEN Len(header)
                ELSE Max(Len(header), Len(fields[1]))
          implicit == ex - Len(header)
          tooMany == \E r \in 2..nrows : Len(fields[r]) > ex
          raw(r, c) == IF implicit + c <= Len(fields[r])
                       THEN fields[r][implicit + c] ELSE <<>>
          numeric(c) == \A r \in 1..nrows :
                           raw(r, c) = <<>> \/ IsFloatText(raw(r, c))
          cell(r, c) == IF raw(r, c) = <<>> THEN NaNCell
                        ELSE IF numeric(c) THEN NumCell(FloatValue(raw(r, c)))
                        ELSE StrCell(raw(r, c))
      IN  IF tooMany THEN ReadError
          ELSE [ok |-> TRUE,
                frame |-> [columns |-> header,
                           rows |-> [r \in 1..nrows |->
                                       [c \in 1..Len(header) |-> cell(r, c)]]]]

----------------------------------------------------------------------------
(* validate_csv_data *)

Err(tag, col) == [e |-> tag, col |-> col]

\* dtype of a column, from its cells
ColKind(cells) ==
    IF \E i \in 1..Len(cells) : cells[i].k = "str" THEN "object"
    ELSE IF \E i \in 1..Len(cells) : cells[i].k \in {"ts", "nat"} THEN "datetime"
    ELSE "float"

HasTerm(col, terms) == \E term \in terms : Contains(Lower(col), term)

RECURSIVE IdentifyColumns_Independent(_, _, _, _)
\* the loop with two independent tests (if ... if ...) instead of if ... elif
IdentifyColumns_Independent(cols, i, dcol, ucol) ==
    IF i > Len(cols) THEN [d |-> dcol, u |-> ucol]
    ELSE IdentifyColumns_Independent(cols, i + 1,
            IF HasTerm(cols[i], DatetimeTerms) THEN cols[i] ELSE dcol,
            IF HasTerm(cols[i], UsageTerms) THEN cols[i] ELSE ucol)

\* the loop "for col in df.columns": the last matching column wins, and a
\* column is tried for the usage role only when it is no datetime match
RECURSIVE IdentifyColumns(_, _, _, _)
IdentifyColumns(cols, i, dcol, ucol) ==
    IF i > Len(cols) THEN [d |-> dcol, u |-> ucol]
    ELSE IF HasTerm(cols[i], DatetimeTerms)
         THEN IdentifyColumns(cols, i + 1, cols[i], ucol)
    ELSE IF HasTerm(cols[i], UsageTerms)
         THEN IdentifyColumns(cols, i + 1, dcol, cols[i])
    ELSE IdentifyColumns(cols, i + 1, dcol, ucol)

\* pd.to_datetime(column).  A numeric column is read as nanoseconds since the
\* epoch (fractions truncated), NaN becomes NaT.  In a text column every text
\* must be a date: text that reads as a float is not taken for one, and
\* lenient tells whether the parser in use takes a decimal-comma number ("1,5")
\* for a date.
to_datetime(cells, lenient) ==
    LET accepted(c) ==
            \/ c.k \in {"num", "nan"}
            \/ c.k = "str" /\ IsDateText(c.t)
            \/ c.k = "str" /\ lenient /\ IsAmbiguousDateText(c.t)
        conv(c) ==
            IF c.k = "nan" THEN NaTCell
            ELSE IF c.k = "num" THEN TsCell(TruncDiv(c.n, 10), <<>>)
            ELSE IF IsDateText(c.t) THEN TsCell(DateTable[c.t[1]].ns, c.t)
            ELSE TsCell(1, c.t)
    IN  IF \A i \in 1..Len(cells) : accepted(cells[i])
        THEN [ok |-> TRUE, cells |-> [i \in 1..Len(cells) |-> conv(cells[i])]]
        ELSE [ok |-> FALSE, cells |-> cells]

\* text.replace(',', '.')
ReplaceComma(t) == [i \in 1..Len(t) |-> IF t[i] = "," THEN "." ELSE t[i]]

\* The usage block, lines 58-64: .str.replace(...).astype(float) on a text
\* column (ValueError when some text is no float), nothing on a column without
\* the .str accessor (AttributeError, passed), then pd.to_numeric, which turns
\* a datetime column into its epoch nanoseconds (NaT: the most negative int64).
usage_to_numeric(cells) ==
    LET kind == ColKind(cells)
        bad(c) == c.k = "str" /\ ~IsFloatText(ReplaceComma(c.t))
        conv(c) ==
            IF c.k = "str" THEN NumCell(FloatValue(ReplaceComma(c.t)))
            ELSE IF c.k = "ts" THEN NumCell(c.n * 10)
            ELSE IF c.k = "nat" THEN NumCell(-100000000)
            ELSE c
    IN  IF kind = "object" /\ \E i \in 1..Len(cells) : bad(cells[i])
        THEN [raised |-> TRUE, cells |-> cells]
        ELSE [raised |-> FALSE, cells |-> [i \in 1..Len(cells) |-> conv(cells[i])]]

\* errors of lines 65-70 for the usage column
usage_errors(us, ucol) ==
    IF us.raised THEN << Err("UsageParseError", ucol) >>
    ELSE (IF \E i \in 1..Len(us.cells) : us.cells[i].k = "nan"
          THEN << Err("NonNumericUsage", ucol) >> ELSE <<>>)
         \o
         (IF \E i \in 1..Len(us.cells) : us.cells[i].k = "num" /\ us.cells[i].n < 0
          THEN << Err("NegativeUsage", ucol) >> ELSE <<>>)

\* validate_csv_data returning as soon as the timestamp column fails to parse
validate_csv_data_FailFast(frame, lenient) ==
    IF IsEmptyFrame(frame)
    THEN [result |-> << Err("EmptyInput", None) >>, frame |-> frame]
    ELSE IF Len(frame.columns) < 2
    THEN [result |-> << Err("InsufficientColumns", None) >>, frame |-> frame]
    ELSE
      LET sel == IdentifyColumns(frame.columns, 1, None, None)
          dcol == IF sel.d = None THEN frame.columns[1] ELSE sel.d
          ucol == IF sel.u = None THEN frame.columns[2] ELSE sel.u
          dt == to_datetime(Column(frame, dcol), lenient)
          f1 == SetColumn(frame, dcol, dt.cells)
          us == usage_to_numeric(Column(f1, ucol))
          f2 == IF us.raised THEN f1 ELSE SetColumn(f1, ucol, us.cells)
      IN  IF dt.ok
          THEN [result |-> << usage_errors(us, ucol), dcol, ucol >>, frame |-> f2]
          ELSE [result |-> << << Err("UnparsableTimestamp", dcol) >>, dcol, ucol >>,
                frame |-> frame]

\* validate_csv_data(df): result is what the function returns (a bare error
\* list on the early returns, else the triple), frame is df after the call
validate_csv_data(frame, lenient) ==
    IF IsEmptyFrame(frame)
    THEN [result |-> << Err("EmptyInput", None) >>, frame |-> frame]
    ELSE IF Len(frame.columns) < 2
    THEN [result |-> << Err("InsufficientColumns", None) >>, frame |-> frame]
    ELSE
      LET sel == IdentifyColumns(frame.columns, 1, None, None)
          dcol == IF sel.d = None THEN frame.columns[1] ELSE sel.d
          ucol == IF sel.u = None
                  THEN (IF Len(frame.columns) > 1 THEN frame.columns[2]
                        ELSE frame.columns[1])
                  ELSE sel.u
          dt == to_datetime(Column(frame, dcol), lenient)
          f1 == IF dt.ok THEN SetColumn(frame, dcol, dt.cells) ELSE frame
          e1 == IF dt.ok THEN <<>> ELSE << Err("UnparsableTimestamp", dcol) >>
          us == usage_to_numeric(Column(f1, ucol))
          f2 == IF us.raised THEN f1 ELSE SetColumn(f1, ucol, us.cells)
      IN  [result |-> << e1 \o usage_errors(us, ucol), dcol, ucol >>,
           frame |-> f2]

----------------------------------------------------------------------------
(* Configuration values.  Money and rates count hundredths, vat_rate counts *)
(* hundredths of a percent.                                                 *)

\* get_default_config()
get_default_config ==
    [fixed_cost |-> 10000, usage_rate |-> 120, vat_rate |-> 2500,
     prices_include_vat |-> FALSE, currency |-> "SEK",
     selected_price_model |-> "custom",
     tariffs |-> << [name |-> "Power Tariff 1", enabled |-> TRUE, top_n |-> 3,
                     rate |-> 5000, months |-> <<>>, hours |-> <<>>] >>]

\* st.session_state after the initialisation of lines 327-336, nothing saved
InitSession ==
    [fixed_cost |-> get_default_config.fixed_cost,
     usage_rate |-> get_default_config.usage_rate,
     vat_rate |-> get_default_config.vat_rate,
     prices_include_vat |-> get_default_config.prices_include_vat,
     currency |-> get_default_config.currency,
     tariffs |-> get_default_config.tariffs,
     selected_price_model |-> get_default_config.selected_price_model,
     config_source |-> "default"]

----------------------------------------------------------------------------
(* main(): upload, parse, validate *)

N_Date == <<"D","a","t","e">>
N_kWh == <<"k","W","h">>
N_id == <<"i","d">>
N_value == <<"v","a","l","u","e">>
N_time == <<"t","i","m","e">>
N_date_kwh == <<"d","a","t","e","_","k","w","h">>
N_note == <<"n","o","t","e">>

\* header rows of the uploads
Headers ==
    { <<N_Date, N_kWh>>, <<N_kWh, N_Date>>, <<N_id, N_value>>,
      <<N_value, N_time>>, <<N_Date>>, <<N_date_kwh, N_value, N_note>>,
      <<N_Date, N_kWh, N_time>> }

\* cell texts of the uploads: a date, junk, empty, 2, -0.5, -1,5
Cells ==
    { <<"2024-01-01 00:00">>, <<"a","b","c">>, <<>>, <<"2">>,
      <<"-","0",".","5">>, <<"-","1",",","5">> }

\* cell texts of the first column: a date, junk, -0.5
FirstCells == { <<"2024-01-01 00:00">>, <<"a","b","c">>, <<"-","0",".","5">> }

\* cell texts of the columns after the second
FillerCells == { <<"2">> }

Seps == {",", ";"}

RowSet(h) ==
    {row \in [1..Len(h) -> Cells] :
        /\ row[1] \in FirstCells
        /\ \A c \in 3..Len(h) : row[c] \in FillerCells}

\* the text of a file with header h and the given rows, written with sep
Text(sep, h, rows) ==
    <<JoinFields(h, sep)>> \o [r \in 1..Len(rows) |-> JoinFields(rows[r], sep)]

\* the files a user may upload (st.file_uploader): an empty file, or a header
\* and up to MaxRows rows written with either separator
Uploaded(text) ==
    \/ text = <<>>
    \/ \E h \in Headers, sep \in Seps, n \in 0..MaxRows :
          \E rows \in [1..n -> RowSet(h)] : text = Text(sep, h, rows)

\* stringio.read(): the lines from the read position on
Unread == SubSeq(upload, stringio_pos + 1, Len(upload))

\* lines 349-350: stringio = StringIO(...); df = pd.read_csv(stringio).
\* An exception leaves the try block for the handler of line 811.
ReadDefault ==
    /\ pc = "uploaded"
    /\ LET r == read_csv(Unread, ",")
       IN  IF r.ok
           THEN /\ df' = r.frame
                /\ stringio_pos' = Len(upload)
                /\ pc' = "read_comma"
           ELSE /\ pc' = "failed"
                /\ UNCHANGED <<df, stringio_pos>>
    /\ UNCHANGED <<upload, errors, datetime_col, usage_col>>
    /\ UNCHANGED <<tariffVars, sessionVars, billVars>>

\* lines 352-356: try: df = pd.read_csv(stringio, sep=',')
\*                except Exception: stringio.seek(0)
ReadComma ==
    /\ pc = "read_comma"
    /\ LET r == read_csv(Unread, ",")
       IN  IF r.ok
           THEN /\ df' = r.frame
                /\ stringio_pos' = Len(upload)
                /\ pc' = "parsed"
           ELSE /\ stringio_pos' = 0
                /\ pc' = "read_semicolon"
                /\ UNCHANGED df
    /\ UNCHANGED <<upload, errors, datetime_col, usage_col>>
    /\ UNCHANGED <<tariffVars, sessionVars, billVars>>

\* lines 357-360: try: df = pd.read_csv(stringio, sep=';')
\*                except Exception as e: raise Exception(...)
ReadSemicolon ==
    /\ pc = "read_semicolon"
    /\ LET r == read_csv(Unread, ";")
       IN  IF r.ok
           THEN /\ df' = r.frame
                /\ stringio_pos' = Len(upload)
                /\ pc' = "parsed"
           ELSE /\ pc' = "failed"
                /\ UNCHANGED <<df, stringio_pos>>
    /\ UNCHANGED <<upload, errors, datetime_col, usage_col>>
    /\ UNCHANGED <<tariffVars, sessionVars, billVars>>

\* Validate going on to the billing section whenever the validator returned
\* its triple, errors or not
Validate_IgnoreErrors ==
    /\ pc = "parsed"
    /\ \E lenient \in BOOLEAN :
         LET v == validate_csv_data(df, lenient)
             triple == Len(v.result) = 3
             errs == IF triple THEN v.result[1] ELSE v.result
         IN  /\ df' = v.frame
             /\ errors' = errs
             /\ datetime_col' = IF triple THEN v.result[2] ELSE None
             /\ usage_col' = IF triple THEN v.result[3] ELSE None
             /\ pc' = IF triple THEN "billing" ELSE "rejected"
    /\ UNCHANGED <<upload, stringio_pos>>
    /\ UNCHANGED <<tariffVars, sessionVars, billVars>>

\* lines 362-374: validation_result = validate_csv_data(df); a result of
\* length 3 is the triple, anything else the error list; errors end the run
Validate ==
    /\ pc = "parsed"
    /\ \E lenient \in BOOLEAN :
         LET v == validate_csv_data(df, lenient)
             triple == Len(v.result) = 3
             errs == IF triple THEN v.result[1] ELSE v.result
         IN  /\ df' = v.frame
             /\ errors' = errs
             /\ datetime_col' = IF triple THEN v.result[2] ELSE None
             /\ usage_col' = IF triple THEN v.result[3] ELSE None
             /\ pc' = IF errs # <<>> THEN "rejected" ELSE "billing"
    /\ UNCHANGED <<upload, stringio_pos>>
    /\ UNCHANGED <<tariffVars, sessionVars, billVars>>

----------------------------------------------------------------------------
(* Exact arithmetic for means and costs: a value is <<numerator, denominator>> *)
(* in lowest terms with a positive denominator                                 *)

RECURSIVE GCD(_, _)
GCD(a, b) == IF b = 0 THEN a ELSE GCD(b, a % b)

Abs(a) == IF a < 0 THEN -a ELSE a

Rat(n, d) == LET g == GCD(Abs(n), d) IN <<n \div g, d \div g>>

Zero == <<0, 1>>

RatAdd(a, b) == Rat(a[1] * b[2] + b[1] * a[2], a[2] * b[2])

RatScale(a, k) == Rat(a[1] * k, a[2])

RECURSIVE SumSeq(_)
SumSeq(s) == IF Len(s) = 0 THEN 0 ELSE s[1] + SumSeq(Tail(s))

----------------------------------------------------------------------------
(* calculate_power_tariffs *)

\* filtered_df[filtered_df[datetime_col].dt.month.isin(months)]
FilterMonths(frame, dcol, months) ==
    [frame EXCEPT !.rows =
        SelectSeq(frame.rows,
                  LAMBDA row : /\ ~IsNaT(row[ColIndex(frame, dcol)])
                               /\ TsMonth(row[ColIndex(frame, dcol)]) \in Range(months))]

\* filtered_df[filtered_df[datetime_col].dt.hour.isin(hours)]
FilterHours(frame, dcol, hours) ==
    [frame EXCEPT !.rows =
        SelectSeq(frame.rows,
                  LAMBDA row : /\ ~IsNaT(row[ColIndex(frame, dcol)])
                               /\ TsHour(row[ColIndex(frame, dcol)]) \in Range(hours))]

\* the hour filter applied to the unfiltered frame
FilterTariff_HoursOfAll(frame, dcol, tariff) ==
    IF tariff.hours # <<>> THEN FilterHours(frame, dcol, tariff.hours)
    ELSE IF tariff.months # <<>> THEN FilterMonths(frame, dcol, tariff.months)
    ELSE frame

\* lines 93-102: the month filter, then the hour filter, each only when its
\* list is non-empty
FilterTariff(frame, dcol, tariff) ==
    LET byMonth == IF tariff.months # <<>>
                   THEN FilterMonths(frame, dcol, tariff.months) ELSE frame
    IN  IF tariff.hours # <<>>
        THEN FilterHours(byMonth, dcol, tariff.hours) ELSE byMonth

RECURSIVE SortedSeq(_)
\* the elements of a finite set of integers in ascending order
SortedSeq(S) ==
    IF S = {} THEN <<>>
    ELSE LET m == CHOOSE x \in S : \A y \in S : x <= y
         IN  <<m>> \o SortedSeq(S \ {m})

\* lines 116-117: groupby(date)[usage_col].max().reset_index(), one row per
\* date in ascending date order; rows without a date (NaT) are in no group
daily_peaks(frame, dcol, ucol) ==
    LET di == ColIndex(frame, dcol)
        ui == ColIndex(frame, ucol)
        dated == {r \in 1..Len(frame.rows) : ~IsNaT(frame.rows[r][di])}
        dates == SortedSeq({TsDate(frame.rows[r][di]) : r \in dated})
        peak(d) ==
            LET us == {frame.rows[r][ui].n :
                         r \in {q \in dated : TsDate(frame.rows[q][di]) = d}}
            IN  CHOOSE u \in us : \A w \in us : w <= u
    IN  [i \in 1..Len(dates) |-> [date |-> dates[i], peak_usage |-> peak(dates[i])]]

\* head(n) instead of nlargest: the first n rows in date order
nlargest_Head(n, peaks) == SubSeq(peaks, 1, Min(Max(n, 0), Len(peaks)))

\* the n-th largest row alone instead of the n largest
nlargest_Nth(n, peaks) ==
    LET rank(i) == 1 + Cardinality({j \in 1..Len(peaks) :
                        \/ peaks[j].peak_usage > peaks[i].peak_usage
                        \/ peaks[j].peak_usage = peaks[i].peak_usage /\ j < i})
        at == {i \in 1..Len(peaks) : rank(i) = n}
    IN  IF at = {} THEN <<>> ELSE <<peaks[CHOOSE i \in at : TRUE]>>

RECURSIVE nlargest(_, _)
\* daily_peaks.nlargest(n, 'peak_usage'): the n largest in descending order,
\* equal values in their original order; nothing for n <= 0
nlargest(n, peaks) ==
    IF n <= 0 \/ Len(peaks) = 0 THEN <<>>
    ELSE LET m == CHOOSE i \in 1..Len(peaks) :
                    /\ \A j \in 1..Len(peaks) : peaks[j].peak_usage <= peaks[i].peak_usage
                    /\ \A j \in 1..(i - 1) : peaks[j].peak_usage < peaks[i].peak_usage
             rest == [j \in 1..(Len(peaks) - 1) |->
                        IF j < m THEN peaks[j] ELSE peaks[j + 1]]
         IN  <<peaks[m]>> \o nlargest(n - 1, rest)

\* top_peaks['peak_usage'].mean()
MeanPeak(top) ==
    Rat(SumSeq([i \in 1..Len(top) |-> top[i].peak_usage]), Len(top))

\* the datetime of the last instead of the first row with the peak's usage
PeakDatetime_Last(frame, dcol, ucol, peak) ==
    LET di == ColIndex(frame, dcol)
        ui == ColIndex(frame, ucol)
        match == SelectSeq(frame.rows,
                           LAMBDA row : /\ ~IsNaT(row[di])
                                        /\ TsDate(row[di]) = peak.date
                                        /\ row[ui].n = peak.peak_usage)
    IN  match[Len(match)][di]

\* lines 144-147: the datetime of the first row of filtered_df on the peak's
\* date whose usage equals the peak
PeakDatetime(frame, dcol, ucol, peak) ==
    LET di == ColIndex(frame, dcol)
        ui == ColIndex(frame, ucol)
        match == SelectSeq(frame.rows,
                           LAMBDA row : /\ ~IsNaT(row[di])
                                        /\ TsDate(row[di]) = peak.date
                                        /\ row[ui].n = peak.peak_usage)
    IN  match[1][di]

\* the entry appended to tariff_costs
CostEntry(tariff, cost, mean, enabled) ==
    [name |-> tariff.name, cost |-> cost, mean_usage |-> mean,
     top_n |-> tariff.top_n, rate |-> tariff.rate, enabled |-> enabled]

\* lines 81-91: a disabled tariff
TariffDisabled ==
    /\ pc = "calc"
    /\ idx <= Len(tariffs)
    /\ ~tariffs[idx].enabled
    /\ tariff_costs' = Append(tariff_costs, CostEntry(tariffs[idx], Zero, Zero, FALSE))
    /\ idx' = idx + 1
    /\ UNCHANGED <<pc, tariffs, filtered_df, top_peaks, total_tariff_cost, peak_hours_info>>
    /\ UNCHANGED <<mainVars, sessionVars, billVars>>

\* an enabled tariff whose filters leave no row ends the loop
TariffNoData_Break ==
    /\ pc = "calc"
    /\ idx <= Len(tariffs)
    /\ tariffs[idx].enabled
    /\ LET f == FilterTariff(df, datetime_col, tariffs[idx])
       IN  /\ Len(f.rows) = 0
           /\ filtered_df' = f
    /\ idx' = Len(tariffs) + 1
    /\ UNCHANGED <<pc, tariffs, top_peaks, total_tariff_cost, peak_hours_info, tariff_costs>>
    /\ UNCHANGED <<mainVars, sessionVars, billVars>>

\* lines 93-113: an enabled tariff whose filters leave no row
TariffNoData ==
    /\ pc = "calc"
    /\ idx <= Len(tariffs)
    /\ tariffs[idx].enabled
    /\ LET f == FilterTariff(df, datetime_col, tariffs[idx])
       IN  /\ Len(f.rows) = 0
           /\ filtered_df' = f
    /\ tariff_costs' = Append(tariff_costs, CostEntry(tariffs[idx], Zero, Zero, TRUE))
    /\ idx' = idx + 1
    /\ UNCHANGED <<pc, tariffs, top_peaks, total_tariff_cost, peak_hours_info>>
    /\ UNCHANGED <<mainVars, sessionVars, billVars>>

\* TariffPeaks filtering the series itself instead of a copy
TariffPeaks_InPlace ==
    /\ pc = "calc"
    /\ idx <= Len(tariffs)
    /\ tariffs[idx].enabled
    /\ LET tariff == tariffs[idx]
           f == FilterTariff(df, datetime_col, tariff)
           top == nlargest(tariff.top_n, daily_peaks(f, datetime_col, usage_col))
           mean == IF Len(top) > 0 THEN MeanPeak(top) ELSE Zero
           cost == IF Len(top) > 0 THEN RatScale(mean, tariff.rate) ELSE Zero
       IN  /\ Len(f.rows) > 0
           /\ filtered_df' = f
           /\ top_peaks' = top
           /\ total_tariff_cost' =
                IF Len(top) > 0 THEN RatAdd(total_tariff_cost, cost)
                ELSE total_tariff_cost
           /\ tariff_costs' = Append(tariff_costs, CostEntry(tariff, cost, mean, TRUE))
           /\ peak_hours_info' = peak_hours_info \o
                [i \in 1..Len(top) |->
                    [datetime |-> PeakDatetime(f, datetime_col, usage_col, top[i]),
                     usage |-> top[i].peak_usage,
                     tariff_name |-> tariff.name,
                     rate |-> tariff.rate,
                     mean_usage |-> mean]]
    /\ idx' = idx + 1
    /\ df' = FilterTariff(df, datetime_col, tariffs[idx])
    /\ UNCHANGED <<pc, tariffs>>
    /\ UNCHANGED <<upload, stringio_pos, errors, datetime_col, usage_col>>
    /\ UNCHANGED <<sessionVars, billVars>>

\* lines 93-102 and 115-155: an enabled tariff with data
TariffPeaks ==
    /\ pc = "calc"
    /\ idx <= Len(tariffs)
    /\ tariffs[idx].enabled
    /\ LET tariff == tariffs[idx]
           f == FilterTariff(df, datetime_col, tariff)
           top == nlargest(tariff.top_n, daily_peaks(f, datetime_col, usage_col))
           mean == IF Len(top) > 0 THEN MeanPeak(top) ELSE Zero
           cost == IF Len(top) > 0 THEN RatScale(mean, tariff.rate) ELSE Zero
       IN  /\ Len(f.rows) > 0
           /\ filtered_df' = f
           /\ top_peaks' = top
           /\ total_tariff_cost' =
                IF Len(top) > 0 THEN RatAdd(total_tariff_cost, cost)
                ELSE total_tariff_cost
           /\ tariff_costs' = Append(tariff_costs, CostEntry(tariff, cost, mean, TRUE))
           /\ peak_hours_info' = peak_hours_info \o
                [i \in 1..Len(top) |->
                    [datetime |-> PeakDatetime(f, datetime_col, usage_col, top[i]),
                     usage |-> top[i].peak_usage,
                     tariff_name |-> tariff.name,
                     rate |-> tariff.rate,
                     mean_usage |-> mean]]
    /\ idx' = idx + 1
    /\ UNCHANGED <<pc, tariffs>>
    /\ UNCHANGED <<mainVars, sessionVars, billVars>>

\* line 157: return total_tariff_cost, peak_hours_info, tariff_costs
TariffReturn ==
    /\ pc = "calc"
    /\ idx > Len(tariffs)
    /\ pc' = "done"
    /\ UNCHANGED <<tariffVars, mainVars, sessionVars, billVars>>

\* bounds of the series and tariff lists handed to calculate_power_tariffs
MaxSeries == 3
MaxTariffs == 2

\* usage values of the series, in tenths
Usages == {10, 20}

\* rows of a validated series
SeriesRows ==
    {<<TsCell(DateTable[d].ns, <<d>>), NumCell(u)>> : d \in DOMAIN DateTable, u \in Usages}

\* meter series: one reading per timestamp, in ascending time order
SeriesSet ==
    UNION { {s \in [1..n -> SeriesRows] :
                \A i \in 1..(n - 1) : s[i][1].n < s[i + 1][1].n}
            : n \in 1..MaxSeries }

\* tariff rules a user can configure (rate 10.00): five enabled rules covering
\* every combination of month and hour filter, and one disabled rule
TariffRules ==
    {[enabled |-> TRUE,  top_n |-> 1, rate |-> 1000, months |-> <<>>,  hours |-> <<>>],
     [enabled |-> TRUE,  top_n |-> 2, rate |-> 1000, months |-> <<>>,  hours |-> <<18>>],
     [enabled |-> TRUE,  top_n |-> 2, rate |-> 1000, months |-> <<1>>, hours |-> <<>>],
     [enabled |-> TRUE,  top_n |-> 1, rate |-> 1000, months |-> <<1>>, hours |-> <<18>>],
     [enabled |-> TRUE,  top_n |-> 2, rate |-> 1000, months |-> <<1>>, hours |-> <<18>>],
     [enabled |-> FALSE, top_n |-> 2, rate |-> 1000, months |-> <<1>>, hours |-> <<18>>]}

TariffNames == <<"Power Tariff 1", "Power Tariff 2", "Power Tariff 3">>

Named(rule, i) ==
    [name |-> TariffNames[i], enabled |-> rule.enabled, top_n |-> rule.top_n,
     rate |-> rule.rate, months |-> rule.months, hours |-> rule.hours]

TariffLists ==
    UNION { {[i \in 1..n |-> Named(l[i], i)] : l \in [1..n -> TariffRules]}
            : n \in 1..MaxTariffs }

\* entry of calculate_power_tariffs from main, line 673, on a validated series
InitTariff ==
    /\ pc = "calc"
    /\ upload = <<>>
    /\ stringio_pos = 0
    /\ \E s \in SeriesSet : df = [columns |-> <<N_Date, N_kWh>>, rows |-> s]
    /\ errors = <<>>
    /\ datetime_col = N_Date
    /\ usage_col = N_kWh
    /\ tariffs \in TariffLists
    /\ idx = 1
    /\ filtered_df = EmptyFrame
    /\ top_peaks = <<>>
    /\ total_tariff_cost = Zero
    /\ peak_hours_info = <<>>
    /\ tariff_costs = <<>>
    /\ session = InitSession
    /\ last_model = None
    /\ model_doc = None
    /\ bill = None

NextTariff == TariffDisabled \/ TariffNoData \/ TariffPeaks \/ TariffReturn

SpecTariff == InitTariff /\ [][NextTariff]_vars


----------------------------------------------------------------------------
(* Price models (JSON documents) and convert_price_model_to_config          *)
(*                                                                          *)
(* A JSON value is [t, n, s]: t = "absent" (key missing), "null", "int"     *)
(* (n), "num" (a float, n in hundredths), "bool" (n = 1 for true) or "str"  *)
(* (the characters s).                                                      *)

Absent == [t |-> "absent", n |-> 0, s |-> <<>>]
JNull == [t |-> "null", n |-> 0, s |-> <<>>]
JInt(n) == [t |-> "int", n |-> n, s |-> <<>>]
JNum(n) == [t |-> "num", n |-> n, s |-> <<>>]
JBool(b) == [t |-> "bool", n |-> IF b THEN 1 ELSE 0, s |-> <<>>]
JStr(s) == [t |-> "str", n |-> 0, s |-> s]

Raised == [ok |-> FALSE, v |-> 0]
Value(v) == [ok |-> TRUE, v |-> v]

RECURSIVE DigitsValue(_)
\* the number a sequence of digits writes
DigitsValue(ds) ==
    IF Len(ds) = 0 THEN 0
    ELSE 10 * DigitsValue(SubSeq(ds, 1, Len(ds) - 1)) + DigitVal[ds[Len(ds)]]

\* int(text): an optional sign and digits, else ValueError
IntOfText(t) ==
    LET b == Unsigned(t)
    IN  IF Len(b) > 0 /\ \A i \in 1..Len(b) : IsDigit(b[i])
        THEN Value(IF Len(t) > 0 /\ t[1] = "-" THEN -DigitsValue(b) ELSE DigitsValue(b))
        ELSE Raised

\* float(x) of dict.get(key, default), in hundredths
FloatOf(j, default) ==
    CASE j.t = "absent" -> Value(default)
      [] j.t = "int" -> Value(j.n * 100)
      [] j.t = "num" -> Value(j.n)
      [] j.t = "bool" -> Value(j.n * 100)
      [] j.t = "str" -> IF IsFloatText(j.s) THEN Value(FloatValue(j.s) * 10) ELSE Raised
      [] OTHER -> Raised

\* int(x) of dict.get(key, default)
IntOf(j, default) ==
    CASE j.t = "absent" -> Value(default)
      [] j.t = "int" -> Value(j.n)
      [] j.t = "num" -> Value(TruncDiv(j.n, 100))
      [] j.t = "bool" -> Value(j.n)
      [] j.t = "str" -> IntOfText(j.s)
      [] OTHER -> Raised

\* time_to_hour: int(time_str.split(':')[0]); AttributeError when the value
\* is no string
time_to_hour(j) ==
    IF j.t = "str" THEN IntOfText(Split(j.s, ":")[1]) ELSE Raised

\* list(range(a, b))
RangeList(a, b) == [i \in 1..(b - a) |-> a + i - 1]

\* the hour list without the branch for a window that crosses midnight
HoursOf_NoWrap(start_hour, end_hour) == RangeList(start_hour, end_hour + 1)

\* lines 240-250: the hour list of a tariff with both time fields
HoursOf(start_hour, end_hour) ==
    IF start_hour <= end_hour
    THEN RangeList(start_hour, end_hour + 1)
    ELSE RangeList(start_hour, 24) \o RangeList(0, end_hour + 1)

\* lines 231-252: one entry of power_tariffs; ok is FALSE when a conversion
\* raises
ConvertTariff(tariff) ==
    LET top == IntOf(tariff.number_of_top_peaks_to_average, 3)
        fee == FloatOf(tariff.fee_per_kw, 5000)
        timed == tariff.start_time.t # "absent" /\ tariff.end_time.t # "absent"
        sh == time_to_hour(tariff.start_time)
        eh == time_to_hour(tariff.end_time)
    IN  IF ~top.ok \/ ~fee.ok \/ (timed /\ (~sh.ok \/ ~eh.ok))
        THEN [ok |-> FALSE, tariff |-> <<>>]
        ELSE [ok |-> TRUE,
              tariff |-> [name |-> IF tariff.name = "" THEN "Unnamed Tariff"
                                   ELSE tariff.name,
                          enabled |-> TRUE,
                          top_n |-> top.v,
                          rate |-> fee.v,
                          months |-> tariff.months,
                          hours |-> IF timed THEN HoursOf(sh.v, eh.v) ELSE <<>>]]

\* convert_price_model_to_config keeping what was converted when a tariff
\* raises (try/except around each tariff instead of around the whole)
convert_price_model_to_config_Partial(model_data) ==
    LET fixed == FloatOf(model_data.fixed_fee_per_month, 10000)
        usage == FloatOf(model_data.usage_fee_per_kwh, 120)
        tax == FloatOf(model_data.tax_rate, 25)
        conv == [i \in 1..Len(model_data.power_tariffs) |->
                    ConvertTariff(model_data.power_tariffs[i])]
        good == SelectSeq(conv, LAMBDA c : c.ok)
    IN  IF ~fixed.ok \/ ~usage.ok \/ ~tax.ok
        THEN None
        ELSE [fixed_cost |-> fixed.v,
              usage_rate |-> usage.v,
              vat_rate |-> tax.v * 100,
              prices_include_vat |->
                  IF model_data.prices_include_tax.t = "absent" THEN FALSE
                  ELSE model_data.prices_include_tax.n = 1,
              currency |-> IF model_data.currency = "" THEN "SEK"
                           ELSE model_data.currency,
              tariffs |-> [i \in 1..Len(good) |-> good[i].tariff]]

\* convert_price_model_to_config(model_data): the configuration, or None when
\* anything in the try block raises
convert_price_model_to_config(model_data) ==
    LET fixed == FloatOf(model_data.fixed_fee_per_month, 10000)
        usage == FloatOf(model_data.usage_fee_per_kwh, 120)
        tax == FloatOf(model_data.tax_rate, 25)
        conv == [i \in 1..Len(model_data.power_tariffs) |->
                    ConvertTariff(model_data.power_tariffs[i])]
    IN  IF ~fixed.ok \/ ~usage.ok \/ ~tax.ok
           \/ \E i \in 1..Len(conv) : ~conv[i].ok
        THEN None
        ELSE [fixed_cost |-> fixed.v,
              usage_rate |-> usage.v,
              vat_rate |-> tax.v * 100,
              prices_include_vat |->
                  IF model_data.prices_include_tax.t = "absent" THEN FALSE
                  ELSE model_data.prices_include_tax.n = 1,
              currency |-> IF model_data.currency = "" THEN "SEK"
                           ELSE model_data.currency,
              tariffs |-> [i \in 1..Len(conv) |-> conv[i].tariff]]

----------------------------------------------------------------------------
(* convert_price_model_to_config applied to price-model documents *)

\* tariffs per document
MaxDocTariffs == 1

T_2200 == <<"2","2",":","0","0">>
T_0200 == <<"0","2",":","0","0">>
T_0600 == <<"0","6",":","0","0">>
T_0630 == <<"0","6",":","3","0">>
T_2359 == <<"2","3",":","5","9">>
T_7 == <<"7">>
T_2500 == <<"2","5",":","0","0">>
T_bad == <<"a","b",":","0","0">>

\* values of start_time and end_time in a document: absent, null, strings
TimeValues ==
    {Absent, JNull} \cup
    {JStr(t) : t \in {T_2200, T_0200, T_0600, T_0630, T_2359, T_7, T_2500, T_bad}}

TariffDoc(name, top, fee, months, start, end) ==
    [name |-> name, number_of_top_peaks_to_average |-> top, fee_per_kw |-> fee,
     months |-> months, start_time |-> start, end_time |-> end]

ModelDoc(name, fixed, usage, tax, incl, cur, pts) ==
    [name |-> name, fixed_fee_per_month |-> fixed, usage_fee_per_kwh |-> usage,
     tax_rate |-> tax, prices_include_tax |-> incl, currency |-> cur,
     power_tariffs |-> pts]

\* tariff documents: every pair of time values, and one document for each
\* other value of number_of_top_peaks_to_average, fee_per_kw and months
TariffDocs ==
    {TariffDoc("Peak", JInt(2), JNum(3000), <<1>>, st, en) :
        st \in TimeValues, en \in TimeValues} \cup
    {TariffDoc("Peak", top, JNum(3000), <<1>>, JStr(T_0600), JStr(T_2200)) :
        top \in {Absent, JInt(0), JInt(0 - 1), JStr(<<"x">>)}} \cup
    {TariffDoc("Peak", JInt(2), fee, <<1>>, JStr(T_0600), JStr(T_2200)) :
        fee \in {Absent, JNum(0), JNum(0 - 100)}} \cup
    {TariffDoc("Peak", JInt(2), JNum(3000), ms, JStr(T_0600), JStr(T_2200)) :
        ms \in {<<>>, <<13>>, <<0, 1>>, <<12, 1, 2>>}}

PriceModelDocs ==
    {ModelDoc("Doc", JNum(5000), JNum(80), JNum(25), JBool(TRUE), "EUR", pts) :
        pts \in UNION {[1..n -> TariffDocs] : n \in 0..MaxDocTariffs}}

\* line 404: model_config = convert_price_model_to_config(...)
Convert ==
    /\ pc = "convert"
    /\ last_model' = convert_price_model_to_config(model_doc)
    /\ pc' = "converted"
    /\ UNCHANGED <<session, model_doc>>
    /\ UNCHANGED <<mainVars, tariffVars, billVars>>

InitConvert ==
    /\ pc = "convert"
    /\ upload = <<>>
    /\ stringio_pos = 0
    /\ df = EmptyFrame
    /\ errors = <<>>
    /\ datetime_col = None
    /\ usage_col = None
    /\ tariffs = <<>>
    /\ idx = 1
    /\ filtered_df = EmptyFrame
    /\ top_peaks = <<>>
    /\ total_tariff_cost = Zero
    /\ peak_hours_info = <<>>
    /\ tariff_costs = <<>>
    /\ session = InitSession
    /\ last_model = None
    /\ model_doc \in PriceModelDocs
    /\ bill = None

NextConvert == Convert

SpecConvert == InitConvert /\ [][NextConvert]_vars

----------------------------------------------------------------------------
(* main(): the billing parameters held in st.session_state *)

\* load_price_models(): the documents of the price-models directory, by file
\* name; three of them do not convert
AvailableModels ==
    [k \in {"night", "day", "badfee", "badtime", "nulltax"} |->
       CASE k = "night" ->
              ModelDoc("Night", JNum(5000), JNum(80), JNum(25), JBool(TRUE), "EUR",
                       << TariffDoc("Peak", JInt(2), JNum(3000), <<1>>,
                                    JStr(T_2200), JStr(T_0200)) >>)
         [] k = "day" ->
              ModelDoc("Day", Absent, JNum(95), Absent, Absent, "",
                       << TariffDoc("", Absent, Absent, <<>>, Absent, Absent),
                          TariffDoc("Day", JInt(1), JInt(40), <<1, 2>>,
                                    JStr(T_0600), JStr(T_2200)) >>)
         [] k = "badfee" ->
              ModelDoc("Bad fee", JStr(<<"a","b","c">>), JNum(70), JNum(6), JBool(TRUE),
                       "NOK", <<>>)
         [] k = "badtime" ->
              ModelDoc("Bad time", JNum(7000), JNum(60), JNum(12), JBool(TRUE), "DKK",
                       << TariffDoc("Ok", JInt(1), JNum(2000), <<>>, Absent, Absent),
                          TariffDoc("Broken", JInt(1), JNum(2000), <<>>,
                                    JStr(T_bad), JStr(T_0200)) >>)
         [] k = "nulltax" ->
              ModelDoc("Null tax", JNum(9000), JNum(50), JNull, JBool(FALSE), "GBP",
                       <<>>)]

\* line 388: model_options
ModelOptions == {"custom"} \cup DOMAIN AvailableModels

\* tariffs the session may hold
MaxSessionTariffs == 2

\* values the user may enter in the basic-cost widgets
FixedCostInputs == {0, 10000}
VatRateInputs == {0, 2500}
CurrencyInputs == {"SEK", "USD"}

\* the tariff list, the tariff results and the cost breakdown are locals of
\* one script run: a run that does not reach the Calculate handler has none
NoResults ==
    /\ tariffs' = <<>>
    /\ total_tariff_cost' = Zero
    /\ peak_hours_info' = <<>>
    /\ tariff_costs' = <<>>
    /\ bill' = None

\* lines 401-417: the user picks another entry of the price-model selector;
\* st.rerun() ends the script run and starts the next
SelectPriceModel ==
    /\ pc = "billing"
    /\ \E selected_model \in ModelOptions :
          /\ selected_model # session.selected_price_model
          /\ IF selected_model # "custom" /\ selected_model \in DOMAIN AvailableModels
             THEN LET model_config ==
                          convert_price_model_to_config(AvailableModels[selected_model])
                  IN  /\ last_model' = model_config
                      /\ IF model_config # None
                         THEN session' =
                                [session EXCEPT
                                   !.fixed_cost = model_config.fixed_cost,
                                   !.usage_rate = model_config.usage_rate,
                                   !.vat_rate = model_config.vat_rate,
                                   !.prices_include_vat = model_config.prices_include_vat,
                                   !.currency = model_config.currency,
                                   !.tariffs = model_config.tariffs,
                                   !.config_source = "price_model",
                                   !.selected_price_model = selected_model]
                         ELSE session' =
                                [session EXCEPT !.selected_price_model = selected_model]
             ELSE /\ last_model' = None
                  /\ session' = [session EXCEPT !.selected_price_model = selected_model]
    /\ pc' = "rerun"
    /\ NoResults
    /\ UNCHANGED <<mainVars, idx, filtered_df, top_peaks, model_doc>>

\* lines 431-485: the user changes basic-cost widgets; their values are
\* written to the session
EditBasicCosts ==
    /\ pc = "billing"
    /\ \E fc \in FixedCostInputs, vr \in VatRateInputs, incl \in BOOLEAN,
          cur \in CurrencyInputs :
          session' = [session EXCEPT !.fixed_cost = fc, !.vat_rate = vr,
                                     !.prices_include_vat = incl, !.currency = cur]
    /\ pc' = "rerun"
    /\ NoResults
    /\ UNCHANGED <<last_model, mainVars, idx, filtered_df, top_peaks, model_doc>>

\* lines 522-534: the Reset button
ResetConfig ==
    /\ pc = "billing"
    /\ session' = InitSession
    /\ pc' = "rerun"
    /\ NoResults
    /\ UNCHANGED <<last_model, mainVars, idx, filtered_df, top_peaks, model_doc>>

\* lines 557-567: the Add Tariff button
AddTariff ==
    /\ pc = "billing"
    /\ Len(session.tariffs) < MaxSessionTariffs
    /\ session' = [session EXCEPT !.tariffs =
                     Append(@, [name |-> TariffNames[Len(@) + 1], enabled |-> TRUE,
                                top_n |-> 3, rate |-> 5000,
                                months |-> <<>>, hours |-> <<>>])]
    /\ pc' = "rerun"
    /\ NoResults
    /\ UNCHANGED <<last_model, mainVars, idx, filtered_df, top_peaks, model_doc>>

\* lines 569-573: the Remove Last Tariff button
RemoveLastTariff ==
    /\ pc = "billing"
    /\ Len(session.tariffs) > 0
    /\ session' = [session EXCEPT !.tariffs = SubSeq(@, 1, Len(@) - 1)]
    /\ pc' = "rerun"
    /\ NoResults
    /\ UNCHANGED <<last_model, mainVars, idx, filtered_df, top_peaks, model_doc>>

\* the billing section of main() after a successful validation
InitSessionSpec ==
    /\ pc = "billing"
    /\ upload = <<>>
    /\ stringio_pos = 0
    /\ df = [columns |-> <<N_Date, N_kWh>>,
             rows |-> << <<TsCell(DateTable["2024-01-01 00:00"].ns, <<"2024-01-01 00:00">>),
                           NumCell(10)>> >>]
    /\ errors = <<>>
    /\ datetime_col = N_Date
    /\ usage_col = N_kWh
    /\ tariffs = <<>>
    /\ idx = 0
    /\ filtered_df = EmptyFrame
    /\ top_peaks = <<>>
    /\ total_tariff_cost = Zero
    /\ peak_hours_info = <<>>
    /\ tariff_costs = <<>>
    /\ session = InitSession
    /\ last_model = None
    /\ model_doc = None
    /\ bill = None


----------------------------------------------------------------------------
(* The tariff editor of main(), lines 576-663.  A widget shows the value it  *)
(* is given from the stored tariff; the user changes nothing.                *)

RECURSIVE MinOf(_)
MinOf(s) == IF Len(s) = 1 THEN s[1] ELSE Min(s[1], MinOf(Tail(s)))

RECURSIVE MaxOf(_)
MaxOf(s) == IF Len(s) = 1 THEN s[1] ELSE Max(s[1], MaxOf(Tail(s)))

\* lines 615-621: the multiselect shows the option names, in calendar order,
\* whose number is among the stored months; months is their numbers
EditorMonths(months) == SortedSeq(Range(months) \cap (1..12))

\* lines 624-644: the slider starts at (min, max) of the stored hours and
\* hours is every hour of that range; no hours without a stored restriction
EditorHours(hours) ==
    IF hours # <<>> THEN RangeList(MinOf(hours), MaxOf(hours) + 1) ELSE <<>>

\* a widget rejects a value outside its limits (StreamlitAPIException):
\* top_n in 1..31, rate >= 0, slider values in 0..23
EditorRaises(tariff_data) ==
    \/ tariff_data.top_n < 1 \/ tariff_data.top_n > 31
    \/ tariff_data.rate < 0
    \/ /\ tariff_data.hours # <<>>
       /\ (MinOf(tariff_data.hours) < 0 \/ MaxOf(tariff_data.hours) > 23)

\* lines 646-663: the dictionary appended to tariffs and stored back
EditorTariff(tariff_data) ==
    [name |-> tariff_data.name, enabled |-> tariff_data.enabled,
     top_n |-> tariff_data.top_n, rate |-> tariff_data.rate,
     months |-> EditorMonths(tariff_data.months),
     hours |-> EditorHours(tariff_data.hours)]

\* the loop of lines 577-663 over the stored tariffs: the local list tariffs
\* and the stored list after it; a raising widget ends the script run with
\* the tariffs before it already stored back
TariffEditor(stored) ==
    LET bad == {i \in 1..Len(stored) : EditorRaises(stored[i])}
        n == IF bad = {} THEN Len(stored) + 1
             ELSE CHOOSE i \in bad : \A j \in bad : i <= j
    IN  [ok |-> bad = {},
         tariffs |-> [i \in 1..(n - 1) |-> EditorTariff(stored[i])],
         stored |-> [i \in 1..Len(stored) |->
                       IF i < n THEN EditorTariff(stored[i]) ELSE stored[i]]]

\* the script run that follows a handler or a widget change: the Calculate
\* button is not pressed, so no cost breakdown is shown
RenderEditor ==
    /\ pc = "rerun"
    /\ LET ed == TariffEditor(session.tariffs)
       IN  /\ tariffs' = ed.tariffs
           /\ session' = [session EXCEPT !.tariffs = ed.stored]
           /\ pc' = IF ed.ok THEN "billing" ELSE "failed"
    /\ total_tariff_cost' = Zero
    /\ peak_hours_info' = <<>>
    /\ tariff_costs' = <<>>
    /\ bill' = None
    /\ UNCHANGED <<last_model, mainVars, idx, filtered_df, top_peaks, model_doc>>

----------------------------------------------------------------------------
(* calculate_power_tariffs as a function of its arguments *)

\* one pass of the loop body, lines 81-155: the entry appended to
\* tariff_costs, the amount added to total_tariff_cost and the entries
\* appended to peak_hours_info
EvalTariff(frame, dcol, ucol, tariff) ==
    IF ~tariff.enabled
    THEN [entry |-> CostEntry(tariff, Zero, Zero, FALSE), cost |-> Zero, peaks |-> <<>>]
    ELSE LET f == FilterTariff(frame, dcol, tariff)
             top == nlargest(tariff.top_n, daily_peaks(f, dcol, ucol))
             mean == IF Len(top) > 0 THEN MeanPeak(top) ELSE Zero
             cost == IF Len(top) > 0 THEN RatScale(mean, tariff.rate) ELSE Zero
         IN  IF Len(f.rows) = 0
             THEN [entry |-> CostEntry(tariff, Zero, Zero, TRUE), cost |-> Zero,
                   peaks |-> <<>>]
             ELSE [entry |-> CostEntry(tariff, cost, mean, TRUE),
                   cost |-> cost,
                   peaks |-> [i \in 1..Len(top) |->
                                [datetime |-> PeakDatetime(f, dcol, ucol, top[i]),
                                 usage |-> top[i].peak_usage,
                                 tariff_name |-> tariff.name,
                                 rate |-> tariff.rate,
                                 mean_usage |-> mean]]]

RECURSIVE calculate_power_tariffs(_, _, _, _)
\* lines 74-157: total_tariff_cost, peak_hours_info, tariff_costs
calculate_power_tariffs(frame, dcol, ucol, ts) ==
    IF Len(ts) = 0
    THEN [total |-> Zero, peaks |-> <<>>, costs |-> <<>>]
    ELSE LET before == calculate_power_tariffs(frame, dcol, ucol,
                                               SubSeq(ts, 1, Len(ts) - 1))
             e == EvalTariff(frame, dcol, ucol, ts[Len(ts)])
         IN  [total |-> RatAdd(before.total, e.cost),
              peaks |-> before.peaks \o e.peaks,
              costs |-> Append(before.costs, e.entry)]

----------------------------------------------------------------------------
(* Bill composition, lines 665-697.  Amounts are exact rationals counting    *)
(* thousandths of the currency unit; vat_rate counts hundredths of a percent *)

RatSub(a, b) == Rat(a[1] * b[2] - b[1] * a[2], a[2] * b[2])

RatMul(a, b) == Rat(a[1] * b[1], a[2] * b[2])

\* a / b for b > 0
RatDiv(a, b) == Rat(a[1] * b[2], a[2] * b[1])

\* calculate_vat with every amount cut to whole thousandths
calculate_vat_Rounded(amount, vat_rate, prices_include_vat) ==
    IF prices_include_vat
    THEN LET net_amount ==
                 Rat((amount[1] * 10000) \div (amount[2] * (10000 + vat_rate)), 1)
         IN  [net |-> net_amount, vat |-> RatSub(amount, net_amount)]
    ELSE [net |-> amount,
          vat |-> Rat((amount[1] * vat_rate) \div (amount[2] * 10000), 1)]

\* lines 159-171
calculate_vat(amount, vat_rate, prices_include_vat) ==
    IF prices_include_vat
    THEN LET vat_multiplier == Rat(10000 + vat_rate, 10000)
             net_amount == RatDiv(amount, vat_multiplier)
         IN  [net |-> net_amount, vat |-> RatSub(amount, net_amount)]
    ELSE [net |-> amount, vat |-> RatMul(amount, Rat(vat_rate, 10000))]

\* the .dt accessor needs a datetime column
IsDatetimeColumn(frame, dcol) ==
    \A r \in 1..Len(frame.rows) : Column(frame, dcol)[r].k \in {"ts", "nat"}

\* ComposeBill adding the VAT to prices that already include it
ComposeBill_VatTwice(fixed_cost, usage_cost, tariff_cost, vat_rate, incl, total_usage, records) ==
    LET subtotal_before_vat == RatAdd(RatAdd(fixed_cost, usage_cost), tariff_cost)
        whole == calculate_vat(subtotal_before_vat, vat_rate, incl)
        fixed == calculate_vat(fixed_cost, vat_rate, TRUE)
        usage == calculate_vat(usage_cost, vat_rate, TRUE)
        tariff == calculate_vat(tariff_cost, vat_rate, TRUE)
        common == [subtotal_before_vat |-> subtotal_before_vat,
                   net_amount |-> whole.net, vat_amount |-> whole.vat,
                   total_usage |-> total_usage,
                   average_usage |-> Rat(total_usage, records)]
    IN  IF incl
        THEN common @@
             [fixed_net |-> fixed.net, usage_net |-> usage.net,
              tariff_net |-> tariff.net,
              fixed_vat |-> fixed.vat, usage_vat |-> usage.vat,
              tariff_vat |-> tariff.vat,
              total_cost |-> RatAdd(subtotal_before_vat, whole.vat),
              subtotal_net |-> RatAdd(RatAdd(fixed.net, usage.net), tariff.net),
              total_vat |-> RatAdd(RatAdd(fixed.vat, usage.vat), tariff.vat)]
        ELSE common @@
             [fixed_net |-> fixed_cost, usage_net |-> usage_cost,
              tariff_net |-> tariff_cost,
              fixed_vat |-> None, usage_vat |-> None, tariff_vat |-> None,
              total_cost |-> RatAdd(whole.net, whole.vat),
              subtotal_net |-> whole.net,
              total_vat |-> whole.vat]

\* lines 677-697 and 733-737: the amounts of the cost breakdown; the
\* component VAT amounts exist only when the prices include VAT
ComposeBill(fixed_cost, usage_cost, tariff_cost, vat_rate, incl, total_usage, records) ==
    LET subtotal_before_vat == RatAdd(RatAdd(fixed_cost, usage_cost), tariff_cost)
        whole == calculate_vat(subtotal_before_vat, vat_rate, incl)
        fixed == calculate_vat(fixed_cost, vat_rate, TRUE)
        usage == calculate_vat(usage_cost, vat_rate, TRUE)
        tariff == calculate_vat(tariff_cost, vat_rate, TRUE)
        common == [subtotal_before_vat |-> subtotal_before_vat,
                   net_amount |-> whole.net, vat_amount |-> whole.vat,
                   total_usage |-> total_usage,
                   average_usage |-> Rat(total_usage, records)]
    IN  IF incl
        THEN common @@
             [fixed_net |-> fixed.net, usage_net |-> usage.net,
              tariff_net |-> tariff.net,
              fixed_vat |-> fixed.vat, usage_vat |-> usage.vat,
              tariff_vat |-> tariff.vat,
              total_cost |-> subtotal_before_vat,
              subtotal_net |-> RatAdd(RatAdd(fixed.net, usage.net), tariff.net),
              total_vat |-> RatAdd(RatAdd(fixed.vat, usage.vat), tariff.vat)]
        ELSE common @@
             [fixed_net |-> fixed_cost, usage_net |-> usage_cost,
              tariff_net |-> tariff_cost,
              fixed_vat |-> None, usage_vat |-> None, tariff_vat |-> None,
              total_cost |-> RatAdd(whole.net, whole.vat),
              subtotal_net |-> whole.net,
              total_vat |-> whole.vat]

\* lines 665-697: the Calculate button.  The click reruns the script, which
\* passes the tariff editor before it reaches the button; an exception ends
\* the run in the handler of line 811.
Calculate ==
    /\ pc = "billing"
    /\ LET ed == TariffEditor(session.tariffs)
           raises == \/ ~ed.ok
                     \/ /\ \E i \in 1..Len(ed.tariffs) : ed.tariffs[i].enabled
                        /\ ~IsDatetimeColumn(df, datetime_col)
           total_usage == SumSeq([r \in 1..Len(df.rows) |-> Column(df, usage_col)[r].n])
           r == calculate_power_tariffs(df, datetime_col, usage_col, ed.tariffs)
       IN  /\ tariffs' = ed.tariffs
           /\ session' = [session EXCEPT !.tariffs = ed.stored]
           /\ IF raises
              THEN /\ pc' = "failed"
                   /\ bill' = None
                   /\ UNCHANGED <<total_tariff_cost, peak_hours_info, tariff_costs>>
              ELSE /\ pc' = "billing"
                   /\ total_tariff_cost' = r.total
                   /\ peak_hours_info' = r.peaks
                   /\ tariff_costs' = r.costs
                   /\ bill' = ComposeBill(Rat(session.fixed_cost * 10, 1),
                                          Rat(total_usage * session.usage_rate, 1),
                                          r.total, session.vat_rate,
                                          session.prices_include_vat,
                                          total_usage, Len(df.rows))
    /\ UNCHANGED <<last_model, mainVars, idx, filtered_df, top_peaks, model_doc>>

----------------------------------------------------------------------------
(* Specifications *)

Init ==
    /\ pc = "uploaded"
    /\ Uploaded(upload)
    /\ stringio_pos = 0
    /\ df = EmptyFrame
    /\ errors = <<>>
    /\ datetime_col = None
    /\ usage_col = None
    /\ tariffs = <<>>
    /\ idx = 0
    /\ filtered_df = EmptyFrame
    /\ top_peaks = <<>>
    /\ total_tariff_cost = Zero
    /\ peak_hours_info = <<>>
    /\ tariff_costs = <<>>
    /\ session = InitSession
    /\ last_model = None
    /\ model_doc = None
    /\ bill = None

Next == ReadDefault \/ ReadComma \/ ReadSemicolon \/ Validate \/ Calculate

Spec == Init /\ [][Next]_vars

NextSession ==
    \/ SelectPriceModel \/ EditBasicCosts \/ ResetConfig \/ AddTariff
    \/ RemoveLastTariff \/ RenderEditor \/ Calculate

SpecSession == InitSessionSpec /\ [][NextSession]_vars

\* billing parameters and data of a Calculate click: a validated series of
\* one or two readings, one tariff or none, and the basic-cost widgets
BillSeries == {s \in SeriesSet : Len(s) <= 2}
BillTariffs == {<<>>} \cup {l \in TariffLists : Len(l) = 1}
UsageRateInputs == {120, 2000}
BillVatRates == {0, 600, 2500}

InitBill ==
    /\ pc = "billing"
    /\ upload = <<>>
    /\ stringio_pos = 0
    /\ \E s \in BillSeries : df = [columns |-> <<N_Date, N_kWh>>, rows |-> s]
    /\ errors = <<>>
    /\ datetime_col = N_Date
    /\ usage_col = N_kWh
    /\ tariffs = <<>>
    /\ idx = 0
    /\ filtered_df = EmptyFrame
    /\ top_peaks = <<>>
    /\ total_tariff_cost = Zero
    /\ peak_hours_info = <<>>
    /\ tariff_costs = <<>>
    /\ \E fc \in FixedCostInputs, ur \in UsageRateInputs, vr \in BillVatRates,
          incl \in BOOLEAN, ts \in BillTariffs :
          session = [InitSession EXCEPT !.fixed_cost = fc, !.usage_rate = ur,
                                        !.vat_rate = vr, !.prices_include_vat = incl,
                                        !.tariffs = ts]
    /\ last_model = None
    /\ model_doc = None
    /\ bill = None

NextBill == Calculate

SpecBill == InitBill /\ [][NextBill]_vars

----------------------------------------------------------------------------
(* Properties of the upload and validation path (Spec) *)

\* a cell holding a negative number, as a float or as text with either
\* decimal separator
NegativeValue(c) ==
    \/ c.k = "num" /\ c.n < 0
    \/ c.k = "str" /\ IsFloatText(ReplaceComma(c.t)) /\ FloatValue(ReplaceComma(c.t)) < 0

\* a cell holding text that is no number
NonNumericValue(c) == c.k = "str" /\ ~IsFloatText(ReplaceComma(c.t))

HasError(errs, tag) == \E i \in 1..Len(errs) : errs[i].e = tag

\* the text is comma-separated: at least two fields in the header and as many
\* in every line
IsCommaSeparated(text) ==
    /\ Len(text) > 0
    /\ Len(Split(text[1], ",")) >= 2
    /\ \A i \in 1..Len(text) : Len(Split(text[i], ",")) = Len(Split(text[1], ","))

\* C2: a well-formed comma-separated upload reaches validate_csv_data as its
\* comma-separated parse (so a two-column file as a two-column table)
C2_CommaParseReachesValidation ==
    (pc = "parsed" /\ IsCommaSeparated(upload)) => df = read_csv(upload, ",").frame

\* C4: when the selected usage column of the table handed to the validator
\* holds a negative value, the validator returns errors
C4_NegativeUsageRejected ==
    [][(pc = "parsed" /\ usage_col' # None
        /\ \E r \in 1..Len(df.rows) : NegativeValue(Column(df, usage_col')[r]))
       => errors' # <<>>]_vars

Validated == pc \in {"billing", "rejected"} /\ datetime_col # None

\* C6 (as stated): each role goes to a column whose name holds one of its
\* terms when there is one, else to the first (timestamp) or second (usage)
\* column, the two searches being independent
C6_IndependentNameMatch ==
    Validated =>
        /\ IF \E c \in Range(df.columns) : HasTerm(c, DatetimeTerms)
           THEN datetime_col \in Range(df.columns) /\ HasTerm(datetime_col, DatetimeTerms)
           ELSE datetime_col = df.columns[1]
        /\ IF \E c \in Range(df.columns) : HasTerm(c, UsageTerms)
           THEN usage_col \in Range(df.columns) /\ HasTerm(usage_col, UsageTerms)
           ELSE usage_col = df.columns[2]

\* C6 (amended): a name holding a timestamp term is never tried for the usage
\* role; the usage column is a column whose name holds a usage term and no
\* timestamp term when there is one, else the second column
C6_UsageMatchSkipsTimestampNames ==
    Validated =>
        /\ IF \E c \in Range(df.columns) : HasTerm(c, DatetimeTerms)
           THEN datetime_col \in Range(df.columns) /\ HasTerm(datetime_col, DatetimeTerms)
           ELSE datetime_col = df.columns[1]
        /\ IF \E c \in Range(df.columns) :
                  HasTerm(c, UsageTerms) /\ ~HasTerm(c, DatetimeTerms)
           THEN /\ usage_col \in Range(df.columns)
                /\ HasTerm(usage_col, UsageTerms)
                /\ ~HasTerm(usage_col, DatetimeTerms)
           ELSE usage_col = df.columns[2]

\* a table whose first name holds terms of both roles: it is the timestamp
\* column and the usage column is the second one
C6_Witness ==
    /\ Validated
    /\ df.columns = <<N_date_kwh, N_value, N_note>>
    /\ datetime_col = N_date_kwh
    /\ usage_col = N_value

\* C7: a non-numeric value in the selected usage column yields the
\* non-numeric error (under either of the validator's two wordings for it) and
\* a negative one the NegativeUsage error, both in the same result when both
\* occur (stated for a usage column that is not also the timestamp column)
C7_BothUsageChecksRun ==
    [][(pc = "parsed" /\ usage_col' # None /\ usage_col' # datetime_col') =>
         LET cells == Column(df, usage_col')
         IN  /\ (\E r \in 1..Len(cells) : NonNumericValue(cells[r]))
                   => \/ HasError(errors', "NonNumericUsage")
                      \/ HasError(errors', "UsageParseError")
             /\ (\E r \in 1..Len(cells) : NegativeValue(cells[r]))
                   => HasError(errors', "NegativeUsage")
      ]_vars

\* the usage errors the validator reports for a column it has not rewritten
ExpectedUsageErrors(cells) ==
    IF \E r \in 1..Len(cells) : NonNumericValue(cells[r])
    THEN {"UsageParseError"}
    ELSE {"NonNumericUsage" : r \in {q \in 1..Len(cells) : cells[q].k = "nan"}}
         \cup
         {"NegativeUsage" : r \in {q \in 1..Len(cells) : NegativeValue(cells[q])}}

\* C8: when the timestamp column does not parse, the usage checks still run:
\* the result holds the timestamp error first and, after it, exactly the usage
\* errors of the usage column
C8_ErrorsAccumulate ==
    [][(pc = "parsed" /\ HasError(errors', "UnparsableTimestamp")) =>
         /\ errors'[1] = Err("UnparsableTimestamp", datetime_col')
         /\ {errors'[i].e : i \in 2..Len(errors')}
              = ExpectedUsageErrors(Column(df, usage_col'))
         /\ \A i \in 2..Len(errors') : errors'[i].col = usage_col'
      ]_vars

\* a result with the timestamp error and both usage errors
C8_Witness ==
    /\ pc = "rejected"
    /\ Len(errors) = 3
    /\ errors[1].e = "UnparsableTimestamp"
    /\ errors[2].e = "NonNumericUsage"
    /\ errors[3].e = "NegativeUsage"

\* C13: a cost breakdown is computed only by a step taken from the billing
\* section, which is entered only with an empty error list, a timestamp and a
\* usage column and a table with at least one row; a non-empty error list
\* ends the run (no step follows it) with nothing computed
C13_BillOnlyAfterValidation ==
    [][/\ bill' # None =>
            /\ pc = "billing"
            /\ errors = <<>>
            /\ ~IsEmptyFrame(df)
            /\ datetime_col # None /\ usage_col # None
       /\ errors' # <<>> => pc' = "rejected" /\ bill' = None
       /\ pc = "rejected" => FALSE
       /\ pc' = "billing" => errors' = <<>> /\ Len(df'.rows) > 0
      ]_vars

\* the cost breakdown of an upload of two rows
C13_Witness ==
    /\ pc = "billing"
    /\ bill # None
    /\ Len(upload) = 3 /\ Len(df.rows) = 2
    /\ bill.average_usage = Rat(bill.total_usage, 2)

----------------------------------------------------------------------------
(* Properties of calculate_power_tariffs (SpecTariff) *)

\* the rows of df a tariff's month and hour lists admit, as row numbers
MatchingRows(t) ==
    {r \in 1..Len(df.rows) :
        /\ t.months = <<>> \/ TsMonth(Column(df, datetime_col)[r]) \in Range(t.months)
        /\ t.hours = <<>> \/ TsHour(Column(df, datetime_col)[r]) \in Range(t.hours)}

MatchingDates(t) == {TsDate(Column(df, datetime_col)[r]) : r \in MatchingRows(t)}

\* the largest usage among the admitted rows of date d
PeakOn(t, d) ==
    LET us == {Column(df, usage_col)[r].n :
                 r \in {q \in MatchingRows(t) : TsDate(Column(df, datetime_col)[q]) = d}}
    IN  CHOOSE u \in us : \A w \in us : w <= u

RECURSIVE SumPeaks(_, _)
SumPeaks(t, S) ==
    IF S = {} THEN 0
    ELSE LET d == CHOOSE x \in S : TRUE
         IN  PeakOn(t, d) + SumPeaks(t, S \ {d})

\* the sets of k dates whose peaks are the k largest
TopDateSets(t, k) ==
    {S \in SUBSET MatchingDates(t) :
        /\ Cardinality(S) = k
        /\ \A a \in S, b \in MatchingDates(t) \ S : PeakOn(t, a) >= PeakOn(t, b)}

HasData(t) == t.enabled /\ MatchingRows(t) # {}

\* C1: for an enabled tariff with matching rows, mean_usage is the mean of the
\* min(top_n, D) largest daily maxima of the matching rows and cost is
\* mean_usage * rate
C1_MeanOfTopPeaks ==
    \A i \in 1..Len(tariff_costs) :
        HasData(tariffs[i]) =>
            LET t == tariffs[i]
                k == Min(t.top_n, Cardinality(MatchingDates(t)))
                e == tariff_costs[i]
            IN  \E S \in TopDateSets(t, k) :
                    /\ e.mean_usage[1] * k = e.mean_usage[2] * SumPeaks(t, S)
                    /\ e.cost[1] * k = e.cost[2] * SumPeaks(t, S) * t.rate

\* the example of the claim, one row per day: 1.0 on the first day, 2.0 on the
\* second, top_n = 1, rate 10 give mean 2.0 and cost 20.0
C1_Witness ==
    /\ pc = "done"
    /\ Len(df.rows) = 2
    /\ df.rows[1][2].n = 10 /\ TsDate(df.rows[1][1]) = 20240101
    /\ df.rows[2][2].n = 20 /\ TsDate(df.rows[2][1]) = 20240201
    /\ tariffs[1].enabled /\ tariffs[1].top_n = 1
    /\ tariffs[1].months = <<>> /\ tariffs[1].hours = <<>>
    /\ tariff_costs[1].mean_usage = <<20, 1>>
    /\ tariff_costs[1].cost = <<20000, 1>>

RECURSIVE SumCosts(_, _)
\* the sum of the costs of the entries numbered in I
SumCosts(entries, I) ==
    IF I = {} THEN Zero
    ELSE LET i == CHOOSE x \in I : TRUE
         IN  RatAdd(entries[i].cost, SumCosts(entries, I \ {i}))

\* C3: a tariff that is disabled or matches no row gets a zero entry, adds
\* nothing to the total and no peak, and does not stop the loop: the entries
\* follow the tariff list one for one
C3_ZeroForDisabledOrNoData ==
    /\ Len(tariff_costs) = idx - 1
    /\ pc = "done" => Len(tariff_costs) = Len(tariffs)
    /\ \A i \in 1..Len(tariff_costs) :
          /\ tariff_costs[i].name = tariffs[i].name
          /\ tariff_costs[i].top_n = tariffs[i].top_n
          /\ tariff_costs[i].rate = tariffs[i].rate
          /\ tariff_costs[i].enabled = tariffs[i].enabled
          /\ ~HasData(tariffs[i]) =>
                /\ tariff_costs[i].cost = Zero
                /\ tariff_costs[i].mean_usage = Zero
                /\ \A j \in 1..Len(peak_hours_info) :
                      peak_hours_info[j].tariff_name # tariffs[i].name
    /\ total_tariff_cost =
          SumCosts(tariff_costs, {i \in 1..Len(tariff_costs) : HasData(tariffs[i])})

\* a list of a disabled tariff and one without matching rows, evaluated to
\* the end
C3_Witness ==
    /\ pc = "done"
    /\ Len(tariffs) = 2
    /\ ~tariffs[1].enabled
    /\ tariffs[2].enabled /\ MatchingRows(tariffs[2]) = {}
    /\ Len(tariff_costs) = 2

\* the last tariff the loop has evaluated was enabled
LastEnabled == idx > 1 /\ tariffs[idx - 1].enabled

\* C9: the rows a tariff evaluates are the rows of the series whose month is
\* in months (or months is empty) and whose hour is in hours (or hours is
\* empty); with both lists empty they are the whole series, and peaks, mean
\* and cost are those of the unfiltered series
C9_FilterIsConjunction ==
    LastEnabled =>
        LET t == tariffs[idx - 1]
        IN  /\ filtered_df.columns = df.columns
            /\ filtered_df.rows =
                 LET kept == SortedSeq(MatchingRows(t))
                 IN  [i \in 1..Len(kept) |-> df.rows[kept[i]]]
            /\ (t.months = <<>> /\ t.hours = <<>>) =>
                  /\ filtered_df = df
                  /\ top_peaks = nlargest(t.top_n, daily_peaks(df, datetime_col, usage_col))
                  /\ tariff_costs[idx - 1].mean_usage = MeanPeak(top_peaks)
                  /\ tariff_costs[idx - 1].cost = RatScale(MeanPeak(top_peaks), t.rate)

\* a tariff with both lists on a series with a row failing only the hour
\* test and a row failing only the month test
C9_Witness ==
    /\ LastEnabled
    /\ tariffs[idx - 1].months = <<1>> /\ tariffs[idx - 1].hours = <<18>>
    /\ Len(df.rows) = 3
    /\ \E r \in 1..3 : TsMonth(df.rows[r][1]) = 1 /\ TsHour(df.rows[r][1]) = 0
    /\ \E r \in 1..3 : TsMonth(df.rows[r][1]) = 2 /\ TsHour(df.rows[r][1]) = 18
    /\ Len(filtered_df.rows) = 1

----------------------------------------------------------------------------
(* Properties of the price-model selection (SpecSession) *)

\* the six billing fields of a session or configuration
Billing(c) == <<c.fixed_cost, c.usage_rate, c.vat_rate, c.prices_include_vat,
                c.currency, c.tariffs>>

\* C10: selecting a price model either changes none of the six billing fields
\* (the conversion failed) or replaces all six by the values converted from
\* that model, one tariff per tariff of the document
C10_ModelAppliedWhollyOrNotAtAll ==
    [][(/\ session'.selected_price_model # session.selected_price_model
        /\ session'.selected_price_model # "custom") =>
         IF last_model' = None
         THEN Billing(session') = Billing(session)
         ELSE /\ Billing(session') = Billing(last_model')
              /\ Len(session'.tariffs) =
                   Len(AvailableModels[session'.selected_price_model].power_tariffs)
      ]_vars

\* the failed conversion of a model, selected after the conversion of another
\* one: the session still holds the first model's fields
C10_Witness ==
    /\ session.selected_price_model = "badtime"
    /\ last_model = None
    /\ session.config_source = "price_model"
    /\ session.currency = "EUR"
    /\ session.fixed_cost = 5000 /\ session.usage_rate = 80
    /\ Len(session.tariffs) = 1 /\ session.tariffs[1].name = "Peak"

\* C19: a script run without a user change in the tariff editor (one that
\* ends ready for the next interaction) keeps, for every stored tariff, the
\* set of months and the set of hours, both in the list handed to
\* calculate_power_tariffs and in the list written back to the session
C19_EditorKeepsRule ==
    [][pc' = "billing" =>
         /\ Len(tariffs') = Len(session.tariffs)
         /\ Len(session'.tariffs) = Len(session.tariffs)
         /\ \A i \in 1..Len(session.tariffs) :
               /\ Range(tariffs'[i].months) = Range(session.tariffs[i].months)
               /\ Range(tariffs'[i].hours) = Range(session.tariffs[i].hours)
               /\ Range(session'.tariffs[i].months) = Range(session.tariffs[i].months)
               /\ Range(session'.tariffs[i].hours) = Range(session.tariffs[i].hours)
      ]_vars

\* C20: after validation of a table with at least two columns the timestamp
\* column and the usage column are two different columns
C20_TwoDifferentColumns ==
    (Validated /\ Len(df.columns) >= 2) => datetime_col # usage_col

----------------------------------------------------------------------------
(* Properties of the bill composition (SpecBill) *)

\* the three entered cost components of the bill shown, in thousandths
FixedCost == Rat(session.fixed_cost * 10, 1)
UsageCost == Rat(bill.total_usage * session.usage_rate, 1)
TariffCost == total_tariff_cost

Sum3(a, b, c) == RatAdd(RatAdd(a, b), c)

\* the splits of the three components add up to the split of their sum
Additive(vat_rate, incl) ==
    LET f == calculate_vat(FixedCost, vat_rate, incl)
        u == calculate_vat(UsageCost, vat_rate, incl)
        t == calculate_vat(TariffCost, vat_rate, incl)
        whole == calculate_vat(Sum3(FixedCost, UsageCost, TariffCost), vat_rate, incl)
    IN  /\ Sum3(f.net, u.net, t.net) = whole.net
        /\ Sum3(f.vat, u.vat, t.vat) = whole.vat

C12_NetPlusVatIsTotal ==
    bill # None =>
        LET subtotal == Sum3(FixedCost, UsageCost, TariffCost)
        IN  /\ RatAdd(bill.subtotal_net, bill.total_vat) = bill.total_cost
            /\ session.prices_include_vat => bill.total_cost = subtotal
            /\ ~session.prices_include_vat =>
                  bill.total_cost =
                     RatAdd(subtotal, Rat(subtotal[1] * session.vat_rate,
                                          subtotal[2] * 10000))

\* the example of the claim with the usage scaled: fixed 100, usage 3.0 kWh at
\* 20 = 60, tariff 20 (peak 2.0 at rate 10), VAT 25 % on top give subtotal
\* 180, VAT 45 and total 225
C12_Witness ==
    /\ bill # None
    /\ ~session.prices_include_vat /\ session.vat_rate = 2500
    /\ FixedCost = <<100000, 1>>
    /\ UsageCost = <<60000, 1>>
    /\ TariffCost = <<20000, 1>>
    /\ bill.subtotal_net = <<180000, 1>>
    /\ bill.total_vat = <<45000, 1>>
    /\ bill.total_cost = <<225000, 1>>

----------------------------------------------------------------------------
(* Further properties of calculate_power_tariffs (SpecTariff) *)

\* the rearrangements of a list of n elements
Rearrangements(n) == {p \in [1..n -> 1..n] : \A i, j \in 1..n : p[i] = p[j] => i = j}

\* C14: no step of the evaluation changes the series; the returned values are
\* those of the function of (series, tariff list); for every rearrangement of
\* the list the total is the same and every tariff keeps its own entry (cost,
\* mean_usage); the total is the sum of the entries' costs
C14_OrderIndependent ==
    [][/\ df' = df
       /\ pc' = "done" =>
            LET r == calculate_power_tariffs(df, datetime_col, usage_col, tariffs)
                n == Len(tariffs)
            IN  /\ total_tariff_cost' = r.total
                /\ peak_hours_info' = r.peaks
                /\ tariff_costs' = r.costs
                /\ r.total = SumCosts(r.costs, 1..n)
                /\ \A p \in Rearrangements(n) :
                      LET q == calculate_power_tariffs(df, datetime_col, usage_col,
                                                       [i \in 1..n |-> tariffs[p[i]]])
                      IN  /\ q.total = r.total
                          /\ \A i \in 1..n : q.costs[i] = r.costs[p[i]]
      ]_vars

\* two tariffs with different positive costs, evaluated to the end
C14_Witness ==
    /\ pc = "done"
    /\ Len(tariffs) = 2
    /\ tariff_costs[1].cost[1] > 0 /\ tariff_costs[2].cost[1] > 0
    /\ tariff_costs[1].cost # tariff_costs[2].cost
    /\ total_tariff_cost = RatAdd(tariff_costs[1].cost, tariff_costs[2].cost)

\* top_n values tried: from below the editor's minimum to above the number of
\* dates a series can have
TopNRange == (0 - 1)..(MaxSeries + 1)

\* top_peaks['peak_usage'].sum() for tariff t with its top_n replaced by n
TopSum(t, n) ==
    LET e == EvalTariff(df, datetime_col, usage_col, [t EXCEPT !.top_n = n])
    IN  SumSeq([i \in 1..Len(e.peaks) |-> e.peaks[i].usage])

\* the sum of the usage of the entries of tariff t in peak_hours_info
RecordedSum(t) ==
    LET mine == SelectSeq(peak_hours_info, LAMBDA e : e.tariff_name = t.name)
    IN  SumSeq([i \in 1..Len(mine) |-> mine[i].usage])

\* C15: on a series with no negative usage, for every tariff the sum of the
\* selected daily peaks with top_n = n is at most the sum with top_n = m
\* whenever n <= m, all other fields fixed; the peaks recorded for an
\* evaluated tariff are those of its own top_n
C15_TopNMonotonic ==
    (\A r \in 1..Len(df.rows) : Column(df, usage_col)[r].n >= 0) =>
        \A i \in 1..Len(tariffs) :
            /\ \A n, m \in TopNRange :
                  n <= m => TopSum(tariffs[i], n) <= TopSum(tariffs[i], m)
            /\ i <= Len(tariff_costs) =>
                  RecordedSum(tariffs[i]) = TopSum(tariffs[i], tariffs[i].top_n)

\* a tariff with top_n = 2 evaluated on two days with peaks 1.0 and 2.0: the
\* sum grows from 0 (top 0) to 2.0 (top 1) to 3.0 (top 2) and stays there
C15_Witness ==
    /\ Len(tariff_costs) >= 1
    /\ tariffs[1].enabled /\ tariffs[1].top_n = 2
    /\ RecordedSum(tariffs[1]) = 30
    /\ TopSum(tariffs[1], 0) = 0
    /\ TopSum(tariffs[1], 1) = 20
    /\ TopSum(tariffs[1], 2) = 30
    /\ TopSum(tariffs[1], 3) = 30

\* the entries of tariff t in peak_hours_info
EntriesOf(t) == SelectSeq(peak_hours_info, LAMBDA e : e.tariff_name = t.name)

\* the first row of df, in the series' order, that tariff t admits on date d
\* and whose usage is the largest admitted on that date
FirstPeakRow(t, d) ==
    LET at == {r \in MatchingRows(t) :
                  /\ TsDate(Column(df, datetime_col)[r]) = d
                  /\ Column(df, usage_col)[r].n = PeakOn(t, d)}
    IN  CHOOSE r \in at : \A q \in at : r <= q

\* C17: an evaluated enabled tariff with matching rows has exactly
\* min(top_n, D) entries in peak_hours_info, on pairwise different dates; the
\* usage of each is the largest usage of the matching rows of its date and
\* its datetime is that of the first such row
C17_OneEntryPerSelectedDate ==
    \A i \in 1..Len(tariff_costs) :
        HasData(tariffs[i]) =>
            LET t == tariffs[i]
                mine == EntriesOf(t)
            IN  /\ Len(mine) = Min(t.top_n, Cardinality(MatchingDates(t)))
                /\ \A a, b \in 1..Len(mine) :
                      a # b => TsDate(mine[a].datetime) # TsDate(mine[b].datetime)
                /\ \A a \in 1..Len(mine) :
                      LET d == TsDate(mine[a].datetime)
                      IN  /\ d \in MatchingDates(t)
                          /\ mine[a].usage = PeakOn(t, d)
                          /\ mine[a].datetime =
                               Column(df, datetime_col)[FirstPeakRow(t, d)]

\* top_n = 2 restricted to January on a series with two January rows of one
\* day, both 2.0, and a February row: D = 1, one entry, at the earlier row
C17_Witness ==
    /\ pc = "done"
    /\ Len(df.rows) = 3
    /\ TsDate(df.rows[1][1]) = 20240101 /\ TsHour(df.rows[1][1]) = 0
    /\ TsDate(df.rows[2][1]) = 20240101 /\ TsHour(df.rows[2][1]) = 18
    /\ df.rows[1][2].n = 20 /\ df.rows[2][2].n = 20
    /\ tariffs[1].enabled /\ tariffs[1].top_n = 2
    /\ tariffs[1].months = <<1>> /\ tariffs[1].hours = <<>>
    /\ Len(EntriesOf(tariffs[1])) = 1
    /\ EntriesOf(tariffs[1])[1].datetime = df.rows[1][1]
    /\ EntriesOf(tariffs[1])[1].usage = 20

----------------------------------------------------------------------------
(* Properties of convert_price_model_to_config (SpecConvert) *)

\* the number written before the first ':' of a time text
HourPart(t) ==
    LET k == CHOOSE k \in 1..(Len(t) + 1) :
                 /\ k = Len(t) + 1 \/ t[k] = ":"
                 /\ \A j \in 1..(k - 1) : t[j] # ":"
    IN  DigitsValue(SubSeq(t, 1, k - 1))

\* the list a, a+1, .., b
FromTo(a, b) == [i \in 1..(b - a + 1) |-> a + i - 1]

\* C16: in a returned configuration the hours of a tariff are derived from
\* the hour parts of start_time and end_time alone: start..end when
\* start <= end, start..23 followed by 0..end when start > end, and the empty
\* list when a time field is absent
C16_HoursFromHourParts ==
    (pc = "converted" /\ last_model # None) =>
        /\ Len(last_model.tariffs) = Len(model_doc.power_tariffs)
        /\ \A i \in 1..Len(last_model.tariffs) :
              LET d == model_doc.power_tariffs[i]
                  hours == last_model.tariffs[i].hours
              IN  IF d.start_time.t = "absent" \/ d.end_time.t = "absent"
                  THEN hours = <<>>
                  ELSE LET start_hour == HourPart(d.start_time.s)
                           end_hour == HourPart(d.end_time.s)
                       IN  hours = IF start_hour <= end_hour
                                   THEN FromTo(start_hour, end_hour)
                                   ELSE FromTo(start_hour, 23) \o FromTo(0, end_hour)

\* "22:00" to "02:00" converted to 22, 23, 0, 1, 2
C16_Witness ==
    /\ pc = "converted"
    /\ Len(model_doc.power_tariffs) = 1
    /\ model_doc.power_tariffs[1].start_time = JStr(T_2200)
    /\ model_doc.power_tariffs[1].end_time = JStr(T_0200)
    /\ last_model # None
    /\ last_model.tariffs[1].hours = <<22, 23, 0, 1, 2>>

\* C18: every tariff of a returned configuration has top_n >= 1, rate >= 0,
\* months within 1..12 and hours within 0..23 with no hour twice; a document
\* that cannot satisfy this converts to None
C18_ConvertedTariffsAreRules ==
    (pc = "converted" /\ last_model # None) =>
        \A i \in 1..Len(last_model.tariffs) :
            LET t == last_model.tariffs[i]
            IN  /\ t.top_n >= 1
                /\ t.rate >= 0
                /\ Range(t.months) \subseteq 1..12
                /\ Range(t.hours) \subseteq 0..23
                /\ \A a, b \in 1..Len(t.hours) : a # b => t.hours[a] # t.hours[b]

====
